---- MODULE Spec2Model ----
(***************************************************************************)
(* azure_sdk_trim: purge of unused API version folders.                    *)
(*                                                                         *)
(* A name (of a directory entry, of a version) and a manifest line are     *)
(* sequences of one-character strings, a path is the sequence of names     *)
(* leading to it from base_dir, and the content of a models.py is the      *)
(* sequence of its lines.                                                  *)
(***************************************************************************)
EXTENDS Naturals, Sequences, FiniteSets

VARIABLES
    dirs,          \* paths that exist as directories
    files,         \* paths that exist as plain files (other than models.py)
    models,        \* path of a directory holding a models.py -> its lines
    unreadable,    \* directories whose models.py cannot be read
    cli_versions,  \* result of get_az_cli_versions: sub_dir -> version folder
    pc,            \* position in purge_old_releases
    api_dirs,      \* VersionedApiDir objects the for loop has not visited yet
    objs,          \* path -> the fields _versions and _keep of its object
    cur,           \* the api_dir of the current loop iteration
    pending,       \* glob results trim_other_versions has not looked at yet
    deleted,       \* the list `deleted` of trim_other_versions (its length)
    ret,           \* the values trim_other_versions returned in this run
    run,           \* number of the current invocation of purge_old_releases
    trees,         \* history: the file system at the start of each invocation
    found,         \* history: the paths find_api_dirs returned
    pre,           \* history: the entries when the current trim_other_versions started
    rmLog,         \* history: paths shutil.rmtree removed in this invocation
    failed,        \* history: an operation of this invocation raised
    abortAt,       \* history: the operation that raised
    lastRead,      \* history: the last value read from the versions property
    extKeeps,      \* number of keep() calls made from outside the purge
    parsedOut,     \* parser check: what the last call of _parse_models returned
    versionedOut,  \* parser check: is_versioned of a fresh object at that call
    outcomes       \* order check: outcomes of the invocations replayed so far

vars == <<dirs, files, models, unreadable, cli_versions, pc, api_dirs, objs, cur,
          pending, deleted, ret, run, trees, found, pre, rmLog, failed, abortAt,
          lastRead, extKeeps, parsedOut, versionedOut, outcomes>>

fsVars == <<dirs, files, models, unreadable, cli_versions>>
runVars == <<pc, api_dirs, objs, cur, pending, deleted, ret, run, trees, found,
             pre, rmLog, failed, abortAt, lastRead, extKeeps>>
parseVars == <<parsedOut, versionedOut>>

----------------------------------------------------------------------------
(* Bounds *)

MaxLines == 2        \* lines of a models.py in the trees of the purge
MaxChildren == 3     \* entries below the API directory of a single-directory tree
MaxRuns == 2         \* invocations of purge_old_releases in a row
MaxTokLen == 3       \* characters of the version token of a line under test
MaxKeeps == 1        \* keep() calls from outside the purge

----------------------------------------------------------------------------
(* Characters, names and lines *)

Digits == {"0", "1", "2", "3", "4", "5", "6", "7", "8", "9"}

\* \d of the two regular expressions
IsDigit(c) == c \in Digits

\* s begins with p
StartsWith(s, p) == Len(s) >= Len(p) /\ SubSeq(s, 1, Len(p)) = p

\* s without its first n characters
Drop(s, n) == SubSeq(s, n + 1, Len(s))

\* "from ." : the literal `from [.]` of the regular expression
FromDot == <<"f", "r", "o", "m", " ", ".">>

\* ".models import" : the literal `[.]models import` (the final ` *` of the
\* expression matches zero or more spaces, that is, any continuation)
ModelsImport == <<".", "m", "o", "d", "e", "l", "s", " ",
                  "i", "m", "p", "o", "r", "t">>

\* Length of the longest prefix of s without a dot: what the greedy [^.]+ takes.
RECURSIVE NonDotRun(_)
NonDotRun(s) == IF s = <<>> \/ s[1] = "." THEN 0 ELSE 1 + NonDotRun(Drop(s, 1))

\* The mutant: the version token may stop after the digit ([^.]* instead of [^.]+).
MatchImport_star(line) ==
    IF ~StartsWith(line, FromDot) THEN <<>>
    ELSE LET rest == Drop(line, Len(FromDot))
         IN  IF Len(rest) < 2 \/ rest[1] # "v" \/ ~IsDigit(rest[2]) THEN <<>>
             ELSE LET k == NonDotRun(Drop(rest, 2))
                  IN  IF ~StartsWith(Drop(rest, 2 + k), ModelsImport) THEN <<>>
                      ELSE <<SubSeq(rest, 1, 2 + k)>>

\* re.match(r'from [.](v\d[^.]+)[.]models import *', line): the captured groups,
\* <<version>> on a match and <<>> on none. The match is anchored at the start
\* of the line only. [^.]+ cannot cross a dot and the next item is a dot, so
\* the only candidate for the group is everything up to the first dot.
MatchImport(line) ==
    IF ~StartsWith(line, FromDot) THEN <<>>
    ELSE LET rest == Drop(line, Len(FromDot))
         IN  IF Len(rest) < 2 \/ rest[1] # "v" \/ ~IsDigit(rest[2]) THEN <<>>
             ELSE LET k == NonDotRun(Drop(rest, 2))
                  IN  IF k < 1 \/ ~StartsWith(Drop(rest, 2 + k), ModelsImport)
                      THEN <<>>
                      ELSE <<SubSeq(rest, 1, 2 + k)>>

\* The loop of _parse_models over the lines of an existing models.py.
RECURSIVE ParseLines(_)
ParseLines(lines) ==
    IF lines = <<>> THEN <<>>
    ELSE MatchImport(lines[1]) \o ParseLines(Drop(lines, 1))

\* tuple -> set, as set(self._parse_models()) does
Range(s) == {s[i] : i \in 1..Len(s)}

----------------------------------------------------------------------------
(* VersionedApiDir objects: [cached, val] is _versions (None when not cached), *)
(* keep is _keep.                                                          *)

NewObj == [cached |-> FALSE, val |-> {}, keep |-> {}]

\* The mutant: keep() forgets to drop the cached set.
KeepObj_stale(obj, v) == [obj EXCEPT !.keep = obj.keep \cup {v}]

\* VersionedApiDir.keep(version) with a single version string
KeepObj(obj, v) == [obj EXCEPT !.keep = obj.keep \cup {v}, !.cached = FALSE]

\* The value the versions property returns; parsed is what _parse_models
\* returns when the property has to call it.
VersionsOf(obj, parsed) ==
    IF obj.cached THEN obj.val ELSE Range(parsed) \cup obj.keep

\* The object after the versions property was read
ReadObj(obj, parsed) ==
    [obj EXCEPT !.cached = TRUE, !.val = VersionsOf(obj, parsed)]

\* VersionedApiDir.is_versioned
IsVersioned(obj, parsed) == VersionsOf(obj, parsed) # {}

----------------------------------------------------------------------------
(* Names, paths and the file system *)

Na == <<"a">>
Nb == <<"b">>
V1 == <<"v", "1", "_", "0">>
V2 == <<"v", "2", "_", "0">>
V3 == <<"v", "3", "_", "0", "_", "p">>
VX == <<"v", "_", "x">>
V7 == <<"v", "7">>
Foo1 == <<"f", "o", "o", "_", "1">>

Base == <<>>
PA == <<Na>>
PB == <<Nb>>
PN == <<Na, V2>>

Last(p) == p[Len(p)]
Parent(p) == SubSeq(p, 1, Len(p) - 1)
IsUnder(p, q) == StartsWith(q, p)
IsChildOf(p, q) == Len(q) = Len(p) + 1 /\ IsUnder(p, q)

\* str(self.path.relative_to(self._base_dir)): the names joined by "/"
RECURSIVE SubDir(_)
SubDir(p) ==
    IF p = <<>> THEN <<".">>
    ELSE IF Len(p) = 1 THEN p[1]
    ELSE p[1] \o <<"/">> \o SubDir(Drop(p, 1))

\* The mutant: the pattern 'v*_*_*'
GlobMatch_two(name) ==
    /\ Len(name) >= 2
    /\ name[1] = "v"
    /\ \E i, j \in 2..Len(name) : i < j /\ name[i] = "_" /\ name[j] = "_"

\* fnmatch of a name against the pattern 'v*_*' (the whole name must match)
GlobMatch(name) ==
    /\ Len(name) >= 2
    /\ name[1] = "v"
    /\ \E i \in 2..Len(name) : name[i] = "_"

\* re.match(r'v\d', name)
ReMatchVDigit(name) == Len(name) >= 2 /\ name[1] = "v" /\ IsDigit(name[2])

\* The mutant: only one of the matching entries is looked at
GlobChildren_first(p) ==
    LET all == {q \in dirs \cup files : IsChildOf(p, q) /\ GlobMatch(Last(q))}
    IN  IF all = {} THEN {} ELSE {CHOOSE q \in all : TRUE}

\* self.path.glob('v*_*'): the entries right below p whose name matches
GlobChildren(p) == {q \in dirs \cup files : IsChildOf(p, q) /\ GlobMatch(Last(q))}

\* VersionedApiDir._parse_models on the directory p of the file system ms
ParseModels(ms, p) == IF p \in DOMAIN ms THEN ParseLines(ms[p]) ELSE <<>>

\* A function without the arguments in gone
Without(f, gone) == [x \in DOMAIN f \ gone |-> f[x]]

\* What shutil.rmtree(p) removes: p and everything below it
Subtree(p) == {q \in dirs \cup files : IsUnder(p, q)}

----------------------------------------------------------------------------
(* Initial trees *)

\* from .<version>.models import *
ImportLine(v) == FromDot \o v \o ModelsImport \o <<" ", "*">>

MainLines == {ImportLine(V1), ImportLine(V2), <<"#">>}

\* The contents of a models.py with at most n lines
Manifests(n) == UNION {[1..k -> MainLines] : k \in 0..n}

EntryUniverse ==
    {[name |-> V1, kind |-> "dir"], [name |-> V2, kind |-> "dir"],
     [name |-> V3, kind |-> "dir"],
     [name |-> V2, kind |-> "file"], [name |-> VX, kind |-> "dir"],
     [name |-> V7, kind |-> "dir"], [name |-> Foo1, kind |-> "dir"]}

ChildSets ==
    {S \in SUBSET EntryUniverse :
        /\ Cardinality(S) <= MaxChildren
        /\ \A e, f \in S : e.name = f.name => e = f}

\* A partial map as a function: the pairs <<argument, value>> of ps
MapOf(ps) == [x \in {pr[1] : pr \in ps} |-> (CHOOSE pr \in ps : pr[1] = x)[2]]

\* One API directory a with any entries and any manifest
InitSingle ==
    \E kids \in ChildSets, man \in Manifests(MaxLines), hasModels \in BOOLEAN,
       cli \in {{}, {<<SubDir(PA), V1>>}, {<<SubDir(PA), V2>>}} :
        /\ dirs = {Base, PA} \cup {Append(PA, e.name) : e \in {k \in kids : k.kind = "dir"}}
        /\ files = {Append(PA, e.name) : e \in {k \in kids : k.kind = "file"}}
        /\ models = MapOf(IF hasModels THEN {<<PA, man>>} ELSE {})
        /\ unreadable = {}
        /\ cli_versions = MapOf(cli)

\* Two API directories a and b, and a third one in the version folder a/v2_0
InitNested ==
    \E kidsA \in SUBSET {V1, V2}, kidsB \in {{V1}, {V1, V2}},
       kidsN \in SUBSET {V1, V2}, nested \in BOOLEAN,
       mA \in SUBSET {PA}, mB \in SUBSET {PB}, mN \in SUBSET {PN},
       bad \in {{}, {PA}, {PB}},
       cli \in {{}, {<<SubDir(PA), V2>>}, {<<SubDir(PB), V2>>}} :
        /\ nested => V2 \in kidsA
        /\ ~nested => kidsN = {} /\ mN = {}
        /\ bad \subseteq mA \cup mB
        /\ dirs = {Base, PA, PB} \cup {Append(PA, n) : n \in kidsA}
                    \cup {Append(PB, n) : n \in kidsB}
                    \cup {Append(PN, n) : n \in kidsN}
        /\ files = {}
        /\ models = [p \in mA \cup mB \cup mN |-> <<ImportLine(V1)>>]
        /\ unreadable = bad
        /\ cli_versions = MapOf(cli)

\* The snapshot of the file system kept as history
Snapshot == [dirs |-> dirs, files |-> files, models |-> models]

InitRun ==
    /\ pc = "start"
    /\ api_dirs = {}
    /\ objs = <<>>
    /\ cur = Base
    /\ pending = {}
    /\ deleted = 0
    /\ ret = {}
    /\ run = 1
    /\ trees = <<Snapshot>>
    /\ found = {}
    /\ pre = [dirs |-> {}, files |-> {}]
    /\ rmLog = {}
    /\ failed = FALSE
    /\ abortAt = "none"
    /\ lastRead = {}
    /\ extKeeps = 0

InitParseIdle ==
    /\ parsedOut = <<>>
    /\ versionedOut = {}

Init ==
    /\ InitSingle \/ InitNested
    /\ InitRun
    /\ InitParseIdle
    /\ outcomes = {}

----------------------------------------------------------------------------
(* purge_old_releases *)

Abort(at) ==
    /\ pc' = "aborted"
    /\ failed' = TRUE
    /\ abortAt' = at

\* One read of the versions property of the object at p: the record kept as
\* history of what was returned and of what models.py and _keep held then
ReadRecord(p) ==
    [path |-> p,
     value |-> VersionsOf(objs[p], ParseModels(models, p)),
     parsed |-> Range(ParseModels(models, p)),
     keep |-> objs[p].keep]

\* usage = disk_usage(base_dir); cli_versions = get_az_cli_versions()
Start ==
    /\ pc = "start"
    /\ pc' = "scan"
    /\ UNCHANGED <<fsVars, api_dirs, objs, cur, pending, deleted, ret, run, trees,
                   found, pre, rmLog, failed, abortAt, lastRead, extKeeps,
                   parseVars, outcomes>>

\* disk_usage(base_dir) raises (du fails, or its output is not a number)
StartFail ==
    /\ pc = "start"
    /\ Abort("du_root")
    /\ UNCHANGED <<fsVars, api_dirs, objs, cur, pending, deleted, ret, run, trees,
                   found, pre, rmLog, lastRead, extKeeps, parseVars, outcomes>>

\* The directories rglob('models.py') yields
Manifested == DOMAIN models

\* The mutant: find_api_dirs adds every object, versioned or not
ScanResult_all == Manifested

\* The directories whose object find_api_dirs adds to its result
ScanResult == {p \in Manifested : IsVersioned(NewObj, ParseModels(models, p))}

\* find_api_dirs when every models.py can be read: an object per models.py,
\* is_versioned read on each, the versioned ones returned
ScanOk ==
    /\ pc = "scan"
    /\ Manifested \cap unreadable = {}
    /\ LET fresh == [p \in Manifested |-> NewObj]
           kept == ScanResult
       IN  /\ objs' = [p \in kept |-> ReadObj(fresh[p], ParseModels(models, p))]
           /\ api_dirs' = kept
           /\ found' = kept
           /\ lastRead' = {[path |-> p,
                            value |-> VersionsOf(fresh[p], ParseModels(models, p)),
                            parsed |-> Range(ParseModels(models, p)),
                            keep |-> fresh[p].keep] : p \in Manifested}
    /\ pc' = "loop"
    /\ UNCHANGED <<fsVars, cur, pending, deleted, ret, run, trees, pre, rmLog,
                   failed, abortAt, extKeeps, parseVars, outcomes>>

\* find_api_dirs when read_text() of some models.py raises: nothing catches it
ScanFail ==
    /\ pc = "scan"
    /\ Manifested \cap unreadable # {}
    /\ Abort("scan")
    /\ UNCHANGED <<fsVars, api_dirs, objs, cur, pending, deleted, ret, run, trees,
                   found, pre, rmLog, lastRead, extKeeps, parseVars, outcomes>>

\* The object of d after the merge step of the loop body
Merged(d) ==
    IF SubDir(d) \in DOMAIN cli_versions
    THEN KeepObj(objs[d], cli_versions[SubDir(d)])
    ELSE objs[d]

\* for api_dir in api_dirs (a set: any order): keep() the override, if any
PickDir(d) ==
    /\ pc = "loop"
    /\ d \in api_dirs
    /\ api_dirs' = api_dirs \ {d}
    /\ cur' = d
    /\ objs' = [objs EXCEPT ![d] = Merged(d)]
    /\ pc' = "du1"
    /\ UNCHANGED <<fsVars, pending, deleted, ret, run, trees, found, pre, rmLog,
                   failed, abortAt, lastRead, extKeeps, parseVars, outcomes>>

\* purge_api_dir: usage = disk_usage(api_dir.path)
Du1Ok ==
    /\ pc = "du1"
    /\ cur \in dirs
    /\ pc' = "trim_begin"
    /\ UNCHANGED <<fsVars, api_dirs, objs, cur, pending, deleted, ret, run, trees,
                   found, pre, rmLog, failed, abortAt, lastRead, extKeeps,
                   parseVars, outcomes>>

\* du exits nonzero on a path that does not exist: CalledProcessError
Du1Missing ==
    /\ pc = "du1"
    /\ cur \notin dirs
    /\ Abort("du_missing")
    /\ UNCHANGED <<fsVars, api_dirs, objs, cur, pending, deleted, ret, run, trees,
                   found, pre, rmLog, lastRead, extKeeps, parseVars, outcomes>>

\* disk_usage of an existing API directory raises
Du1Fail ==
    /\ pc = "du1"
    /\ cur \in dirs
    /\ Abort("du_before")
    /\ UNCHANGED <<fsVars, api_dirs, objs, cur, pending, deleted, ret, run, trees,
                   found, pre, rmLog, lastRead, extKeeps, parseVars, outcomes>>

\* trim_other_versions up to the first glob result: `if not self.is_versioned`
TrimBegin ==
    /\ pc = "trim_begin"
    /\ objs' = [objs EXCEPT ![cur] = ReadObj(objs[cur], ParseModels(models, cur))]
    /\ lastRead' = {ReadRecord(cur)}
    /\ pre' = [dirs |-> dirs, files |-> files]
    /\ deleted' = 0
    /\ IF IsVersioned(objs[cur], ParseModels(models, cur))
       THEN /\ pending' = GlobChildren(cur)
            /\ pc' = "trim"
            /\ ret' = ret
       ELSE /\ pending' = {}
            /\ pc' = "du2"
            /\ ret' = ret \cup {[path |-> cur, n |-> 0]}
    /\ UNCHANGED <<fsVars, api_dirs, cur, run, trees, found, rmLog, failed, abortAt,
                   extKeeps, parseVars, outcomes>>

\* The mutant: the name test on the keep-set is left out
Skipped_nokeep(c) ==
    \/ c \notin dirs
    \/ ~ReMatchVDigit(Last(c))

\* The mutant: the is_dir() and v<digit> tests are left out
Skipped_keeponly(c) ==
    Last(c) \in VersionsOf(objs[cur], ParseModels(models, cur))

\* The three `continue` tests of the loop body, on the glob result c
Skipped(c) ==
    \/ c \notin dirs
    \/ Last(c) \in VersionsOf(objs[cur], ParseModels(models, cur))
    \/ ~ReMatchVDigit(Last(c))

\* One iteration of the loop that ends in `continue`
TrimSkip(c) ==
    /\ pc = "trim"
    /\ c \in pending
    /\ Skipped(c)
    /\ pending' = pending \ {c}
    /\ objs' = [objs EXCEPT ![cur] = ReadObj(objs[cur], ParseModels(models, cur))]
    /\ UNCHANGED <<fsVars, pc, api_dirs, cur, deleted, ret, run, trees, found, pre,
                   rmLog, failed, abortAt, lastRead, extKeeps, parseVars, outcomes>>

\* The file system after shutil.rmtree removed the paths in gone
Removed(gone) ==
    /\ dirs' = dirs \ gone
    /\ files' = files \ gone
    /\ models' = Without(models, gone)
    /\ unreadable' = unreadable \ gone
    /\ UNCHANGED cli_versions

\* One iteration of the loop that deletes: shutil.rmtree(version_dir) and
\* deleted.append(version_dir)
TrimDelete(c) ==
    /\ pc = "trim"
    /\ c \in pending
    /\ ~Skipped(c)
    /\ Removed(Subtree(c))
    /\ pending' = pending \ {c}
    /\ deleted' = deleted + 1
    /\ rmLog' = rmLog \cup {c}
    /\ objs' = [objs EXCEPT ![cur] = ReadObj(objs[cur], ParseModels(models, cur))]
    /\ UNCHANGED <<pc, api_dirs, cur, ret, run, trees, found, pre, failed, abortAt,
                   lastRead, extKeeps, parseVars, outcomes>>

\* The mutant: the error of shutil.rmtree is swallowed and the loop goes on
TrimFail_swallow(c) ==
    /\ pc = "trim"
    /\ c \in pending
    /\ ~Skipped(c)
    /\ pending' = pending \ {c}
    /\ failed' = TRUE
    /\ abortAt' = "rmtree"
    /\ UNCHANGED <<fsVars, pc, api_dirs, objs, cur, deleted, ret, run, trees, found,
                   pre, rmLog, lastRead, extKeeps, parseVars, outcomes>>

\* shutil.rmtree(version_dir) raises: c itself stays, and what it had removed
\* below c before it raised is gone
TrimFail(c) ==
    /\ pc = "trim"
    /\ c \in pending
    /\ ~Skipped(c)
    /\ \E part \in SUBSET (Subtree(c) \ {c}) :
          Removed({q \in Subtree(c) : \E g \in part : IsUnder(g, q)})
    /\ Abort("rmtree")
    /\ objs' = [objs EXCEPT ![cur] = ReadObj(objs[cur], ParseModels(models, cur))]
    /\ UNCHANGED <<api_dirs, cur, pending, deleted, ret, run, trees, found, pre,
                   rmLog, lastRead, extKeeps, parseVars, outcomes>>

\* return len(deleted)
TrimEnd ==
    /\ pc = "trim"
    /\ pending = {}
    /\ ret' = ret \cup {[path |-> cur, n |-> deleted]}
    /\ pc' = "du2"
    /\ UNCHANGED <<fsVars, api_dirs, objs, cur, pending, deleted, run, trees, found,
                   pre, rmLog, failed, abortAt, lastRead, extKeeps, parseVars,
                   outcomes>>

\* purge_api_dir: new_usage = disk_usage(api_dir.path), then the next iteration
Du2Ok ==
    /\ pc = "du2"
    /\ pc' = "loop"
    /\ UNCHANGED <<fsVars, api_dirs, objs, cur, pending, deleted, ret, run, trees,
                   found, pre, rmLog, failed, abortAt, lastRead, extKeeps,
                   parseVars, outcomes>>

Du2Fail ==
    /\ pc = "du2"
    /\ Abort("du_after")
    /\ UNCHANGED <<fsVars, api_dirs, objs, cur, pending, deleted, ret, run, trees,
                   found, pre, rmLog, lastRead, extKeeps, parseVars, outcomes>>

\* After the loop: new_usage = disk_usage(base_dir) and the report
Finish ==
    /\ pc = "loop"
    /\ api_dirs = {}
    /\ pc' = "done"
    /\ UNCHANGED <<fsVars, api_dirs, objs, cur, pending, deleted, ret, run, trees,
                   found, pre, rmLog, failed, abortAt, lastRead, extKeeps,
                   parseVars, outcomes>>

FinishFail ==
    /\ pc = "loop"
    /\ api_dirs = {}
    /\ Abort("du_final")
    /\ UNCHANGED <<fsVars, api_dirs, objs, cur, pending, deleted, ret, run, trees,
                   found, pre, rmLog, lastRead, extKeeps, parseVars, outcomes>>

\* The tool is run again on the tree the completed run left
Rerun ==
    /\ pc = "done"
    /\ run < MaxRuns
    /\ run' = run + 1
    /\ pc' = "start"
    /\ api_dirs' = {}
    /\ objs' = <<>>
    /\ cur' = Base
    /\ pending' = {}
    /\ deleted' = 0
    /\ ret' = {}
    /\ trees' = Append(trees, Snapshot)
    /\ found' = {}
    /\ pre' = [dirs |-> {}, files |-> {}]
    /\ rmLog' = {}
    /\ lastRead' = {}
    /\ UNCHANGED <<fsVars, failed, abortAt, extKeeps, parseVars, outcomes>>

\* The steps of one invocation in which nothing outside the program fails
NextRun ==
    \/ Start
    \/ ScanOk
    \/ ScanFail
    \/ \E d \in api_dirs : PickDir(d)
    \/ Du1Ok
    \/ Du1Missing
    \/ TrimBegin
    \/ \E c \in pending : TrimSkip(c)
    \/ \E c \in pending : TrimDelete(c)
    \/ TrimEnd
    \/ Du2Ok
    \/ Finish

\* The steps in which disk_usage or shutil.rmtree raises
NextFail ==
    \/ StartFail
    \/ Du1Fail
    \/ \E c \in pending : TrimFail(c)
    \/ Du2Fail
    \/ FinishFail

Next == NextRun \/ NextFail \/ Rerun

Spec == Init /\ [][Next]_vars

\* The file system at the start of the current invocation
Tree0 == trees[Len(trees)]


----------------------------------------------------------------------------
(* Vocabulary of the properties *)

\* The entries right below d in a snapshot
ChildrenIn(snap, d) == {q \in snap.dirs \cup snap.files : IsChildOf(d, q)}

\* The directories right below d in a snapshot
ChildDirsIn(snap, d) == {q \in snap.dirs : IsChildOf(d, q)}

\* The keep-set of the object of d: the versions its models.py declared when
\* the invocation started, and the versions keep() has added
KeepSet(d) == Range(ParseModels(Tree0.models, d)) \cup objs[d].keep

\* A name of the version-folder shape: 'v', a digit, and an underscore
\* somewhere after the 'v'
VersionName(n) ==
    /\ n # <<>>
    /\ n[1] = "v"
    /\ "_" \in Range(Drop(n, 1))
    /\ Drop(n, 1)[1] \in Digits

\* d lies in (or is) a folder shutil.rmtree has removed in this invocation
InRemoved(d) == \E r \in rmLog : IsUnder(r, d)

\* Every rmtree of the invocation was aimed at an entry right below a directory
\* find_api_dirs returned, and whatever is gone lay in such an entry
OnlyPrunedChildren ==
    /\ \A r \in rmLog : Parent(r) \in found
    /\ \A q \in Tree0.dirs \ dirs : InRemoved(q)

\* C1 as stated: after a completed purge_old_releases, for every directory
\* find_api_dirs returned (also one that lies below another one), each child
\* directory that existed before the run and is named in its keep-set still
\* exists, and deletions only hit entries right below a pruned directory.
C1_KeptChildrenSurvive ==
    pc = "done" =>
        /\ \A d \in found : \A c \in ChildDirsIn(Tree0, d) :
              Last(c) \in KeepSet(d) => c \in dirs
        /\ OnlyPrunedChildren

\* C1 amended: the same, for every returned directory that does not lie in a
\* version folder the run removed from an enclosing versioned directory.
C1_KeptChildrenSurviveOutsideRemoved ==
    pc = "done" =>
        /\ \A d \in found : ~InRemoved(d) =>
              \A c \in ChildDirsIn(Tree0, d) : Last(c) \in KeepSet(d) => c \in dirs
        /\ OnlyPrunedChildren

\* C1 witness: a completed run over a versioned directory and a second one
\* below it that survived, with a kept child each and something removed.
C1_Witness ==
    /\ pc = "done"
    /\ {PA, PN} \subseteq found
    /\ ~InRemoved(PN)
    /\ \E c \in ChildDirsIn(Tree0, PN) : Last(c) \in KeepSet(PN)
    /\ rmLog # {}

\* The children of cur that trim_other_versions has to remove: directories of
\* the version-folder shape that its keep-set does not name
Unwanted ==
    {c \in pre.dirs : IsChildOf(cur, c) /\ VersionName(Last(c))
                       /\ Last(c) \notin KeepSet(cur)}

\* C2: when trim_other_versions has returned for a versioned directory, every
\* child directory of the version-folder shape outside the keep-set is gone, and
\* the value returned is the number of those children that existed at the call.
C2_TrimRemovesUnkept ==
    (pc = "du2" /\ KeepSet(cur) # {}) =>
        /\ Unwanted \cap dirs = {}
        /\ [path |-> cur, n |-> Cardinality(Unwanted)] \in ret

\* C2 witness: a call that returned after removing a folder and keeping the
\* two folders that models.py imports.
C2_Witness ==
    /\ pc = "du2"
    /\ Unwanted # {}
    /\ Cardinality(Range(ParseModels(models, cur))) = 2
    /\ \A v \in Range(ParseModels(models, cur)) : Append(cur, v) \in dirs

\* The entries of cur that are no version folder: the name has another shape,
\* or the entry is a plain file
NonVersion ==
    {q \in pre.dirs \cup pre.files :
        IsChildOf(cur, q) /\ (~VersionName(Last(q)) \/ q \in pre.files)}

\* C3: during and after trim_other_versions every entry of the directory that
\* is not a version folder (another name shape, or a plain file) and its
\* models.py are there as before, whatever the keep-set holds.
C3_NonVersionUntouched ==
    pc \in {"trim", "du2"} =>
        /\ NonVersion \cap pre.dirs \subseteq dirs
        /\ NonVersion \cap pre.files \subseteq files
        /\ \A r \in rmLog : Parent(r) = cur => VersionName(Last(r)) /\ r \in pre.dirs
        /\ cur \in DOMAIN Tree0.models =>
              cur \in DOMAIN models /\ models[cur] = Tree0.models[cur]

\* C3 witness: a call that returned after a removal, in a directory that holds
\* an entry which is no version folder and a keep-set naming none of its entries.
C3_Witness ==
    /\ pc = "du2"
    /\ NonVersion # {}
    /\ \E r \in rmLog : Parent(r) = cur
    /\ \A q \in pre.dirs \cup pre.files : IsChildOf(cur, q) => Last(q) \notin KeepSet(cur)

\* The directories whose models.py is absent or declares no version
Unversioned == {d \in Tree0.dirs : ParseModels(Tree0.models, d) = <<>>}

Outside == {"du_root", "du_before", "du_after", "du_final"}

\* C5: a run that follows a completed run removes nothing: every
\* trim_other_versions returns 0, the tree stays the one the first run left,
\* and the run does not stop unless a measurement fails.
C5_SecondRunIdempotent ==
    run >= 2 =>
        /\ rmLog = {}
        /\ \A r \in ret : r.n = 0
        /\ Snapshot = Tree0
        /\ pc = "aborted" => abortAt \in Outside

\* C5 witness: the second run completed, pruned a directory again, and the
\* first run had removed something.
C5_Witness ==
    /\ run = 2
    /\ pc = "done"
    /\ ret # {}
    /\ trees[1].dirs # trees[2].dirs

\* C7 as stated: an unreadable models.py does not stop find_api_dirs; its
\* directory is left out and the readable versioned ones are returned.
C7_UnreadableManifestSkipped ==
    (pc \notin {"start", "scan"} /\ DOMAIN Tree0.models \cap unreadable # {}) =>
        /\ abortAt # "scan"
        /\ found = {p \in DOMAIN Tree0.models \ unreadable :
                        ParseModels(Tree0.models, p) # <<>>}

\* C8: once an rmtree or a disk_usage has raised, the invocation is over and
\* removes nothing more; the step that raises ends the invocation; what was
\* removed before stays removed; a failure of the first measurement leaves the
\* tree as it was.
C8_FailStop ==
    [][/\ failed => (dirs' = dirs /\ files' = files /\ pc' = "aborted")
       /\ (failed' /\ ~failed) => (pc' = "aborted" /\ rmLog' = rmLog)
       /\ rmLog' \cap dirs' = {}
       /\ run' = run => dirs' \subseteq dirs
       /\ abortAt' = "du_root" => Snapshot' = Tree0']_vars

\* C8 witness: an rmtree raised after another folder had been removed, and a
\* directory of the result was never pruned.
C8_Witness ==
    /\ pc = "aborted"
    /\ abortAt = "rmtree"
    /\ rmLog # {}
    /\ api_dirs # {}

----------------------------------------------------------------------------
(* keep() and versions called on the objects from outside the loop *)

\* api_dir.keep(v) by a caller that holds the object of d, while the
\* directory of the object is still there
ExtKeep(d, v) ==
    /\ pc \notin {"done", "aborted"}
    /\ d \in DOMAIN objs
    /\ d \in Manifested
    /\ extKeeps < MaxKeeps
    /\ extKeeps' = extKeeps + 1
    /\ objs' = [objs EXCEPT ![d] = KeepObj(objs[d], v)]
    /\ UNCHANGED <<fsVars, pc, api_dirs, cur, pending, deleted, ret, run, trees,
                   found, pre, rmLog, failed, abortAt, lastRead, parseVars, outcomes>>

\* api_dir.versions read by a caller that holds the object of d
ExtRead(d) ==
    /\ pc \notin {"done", "aborted"}
    /\ d \in DOMAIN objs
    /\ d \in Manifested
    /\ lastRead' = {ReadRecord(d)}
    /\ objs' = [objs EXCEPT ![d] = ReadObj(objs[d], ParseModels(models, d))]
    /\ UNCHANGED <<fsVars, pc, api_dirs, cur, pending, deleted, ret, run, trees,
                   found, pre, rmLog, failed, abortAt, extKeeps, parseVars, outcomes>>

\* The steps of an invocation on a tree where nothing raises
NextPlain ==
    \/ Start
    \/ ScanOk
    \/ \E d \in api_dirs : PickDir(d)
    \/ Du1Ok
    \/ TrimBegin
    \/ \E c \in pending : TrimSkip(c)
    \/ \E c \in pending : TrimDelete(c)
    \/ TrimEnd
    \/ Du2Ok
    \/ Finish

NextKeep ==
    \/ NextPlain
    \/ \E d \in DOMAIN objs, v \in {V1, V2} : ExtKeep(d, v)
    \/ \E d \in DOMAIN objs : ExtRead(d)

\* Two API directories a and b that import v1_0, with or without an override
InitKeepTree ==
    \E kidsA \in SUBSET {V1, V2}, kidsB \in SUBSET {V1, V2},
       cli \in {{}, {<<SubDir(PA), V1>>}, {<<SubDir(PA), V2>>}} :
        /\ dirs = {Base, PA, PB} \cup {Append(PA, n) : n \in kidsA}
                    \cup {Append(PB, n) : n \in kidsB}
        /\ files = {}
        /\ models = [p \in {PA, PB} |-> <<ImportLine(V1)>>]
        /\ unreadable = {}
        /\ cli_versions = MapOf(cli)

InitKeep ==
    /\ InitKeepTree
    /\ InitRun
    /\ InitParseIdle
    /\ outcomes = {}

SpecKeep == InitKeep /\ [][NextKeep]_vars

\* C6: every read of the versions property returns the versions parsed from
\* models.py together with all versions passed to keep() so far, and while
\* trim_other_versions works on a directory that has an override, the override
\* is in the set it consults.
C6_VersionsFresh ==
    /\ \A r \in lastRead : r.value = r.parsed \cup r.keep
    /\ (pc = "trim" /\ SubDir(cur) \in DOMAIN cli_versions) =>
          cli_versions[SubDir(cur)] \in VersionsOf(objs[cur], ParseModels(models, cur))

\* C6 witness: trim_other_versions works on a directory whose last read
\* returned a version that only keep() supplied, after a keep() from outside.
C6_Witness ==
    /\ pc = "trim"
    /\ extKeeps >= 1
    /\ SubDir(cur) \in DOMAIN cli_versions
    /\ \E r \in lastRead : r.path = cur /\ ~(r.keep \subseteq r.parsed)
                            /\ r.value = r.parsed \cup r.keep

----------------------------------------------------------------------------
(* The same tree purged again from its first state, in another order *)

\* How the invocation ended and the directories it left
Outcome == [status |-> pc, dirs |-> dirs, files |-> files]

\* The invocation is over: note its outcome and put the first tree back
Replay ==
    /\ pc \in {"done", "aborted"}
    /\ Outcome \notin outcomes
    /\ outcomes' = outcomes \cup {Outcome}
    /\ dirs' = trees[1].dirs
    /\ files' = trees[1].files
    /\ models' = trees[1].models
    /\ pc' = "start"
    /\ api_dirs' = {}
    /\ objs' = <<>>
    /\ cur' = Base
    /\ pending' = {}
    /\ deleted' = 0
    /\ ret' = {}
    /\ found' = {}
    /\ pre' = [dirs |-> {}, files |-> {}]
    /\ rmLog' = {}
    /\ failed' = FALSE
    /\ abortAt' = "none"
    /\ lastRead' = {}
    /\ UNCHANGED <<unreadable, cli_versions, run, trees, extKeeps, parseVars>>

SpecOrder == Init /\ [][NextRun \/ Replay]_vars

\* C9 as stated: whatever the order in which the loop visits the result of
\* find_api_dirs, the invocation ends the same way and leaves the same tree.
C9_OrderIndependent ==
    Cardinality(outcomes \cup (IF pc \in {"done", "aborted"} THEN {Outcome} ELSE {})) <= 1

----------------------------------------------------------------------------
(* _parse_models on manifests with one line of any of the shapes below *)

TokChars == {"v", "7", "_", "."}

\* The texts that stand where the version stands in an import line
Tokens == UNION {[1..k -> TokChars] : k \in 1..MaxTokLen}

\* "from .", "from " and " from ."
Heads == {FromDot, <<"f", "r", "o", "m", " ">>, <<" ">> \o FromDot}

\* ".models import *", ".models import", ".models import x", ".model import *"
Tails ==
    {ModelsImport \o <<" ", "*">>, ModelsImport, ModelsImport \o <<" ", "x">>,
     <<".", "m", "o", "d", "e", "l", " ", "i", "m", "p", "o", "r", "t", " ", "*">>}

TestLines == {h \o t \o e : h \in Heads, t \in Tokens, e \in Tails}

\* The contents models.py starts with: imports of v1_0 and comment lines
SeedManifests == UNION {[1..k -> {ImportLine(V1), <<"#">>}] : k \in 0..MaxLines}

\* A directory a whose models.py is absent or holds lines of the purge trees
InitParse ==
    /\ dirs = {Base, PA}
    /\ files = {}
    /\ models \in {MapOf({})} \cup {MapOf({<<PA, m>>}) : m \in SeedManifests}
    /\ unreadable = {}
    /\ cli_versions = MapOf({})
    /\ InitRun
    /\ InitParseIdle
    /\ outcomes = {}

\* s with the element l put at position i
InsertAt(s, l, i) == SubSeq(s, 1, i - 1) \o <<l>> \o SubSeq(s, i, Len(s))

\* models.py of a exists and holds none of the lines under test yet
Writable ==
    /\ PA \in Manifested
    /\ \A k \in 1..Len(models[PA]) : models[PA][k] \in MainLines

\* models.py of a gets one more line, anywhere
WriteLine(l, i) ==
    /\ Writable
    /\ i \in 1..(Len(models[PA]) + 1)
    /\ models' = [models EXCEPT ![PA] = InsertAt(models[PA], l, i)]
    /\ parsedOut' = <<>>
    /\ versionedOut' = {}
    /\ UNCHANGED <<dirs, files, unreadable, cli_versions, runVars, outcomes>>

\* VersionedApiDir(a/models.py, base_dir): _parse_models() and is_versioned
ParseCall ==
    /\ parsedOut' = <<ParseModels(models, PA)>>
    /\ versionedOut' = {IsVersioned(NewObj, ParseModels(models, PA))}
    /\ UNCHANGED <<fsVars, runVars, outcomes>>

NextParse ==
    \/ Writable /\ \E l \in TestLines, i \in 1..(MaxLines + 1) : WriteLine(l, i)
    \/ ParseCall

SpecParse == InitParse /\ [][NextParse]_vars

\* The lines of the models.py of a
LinesOfA == IF PA \in Manifested THEN models[PA] ELSE <<>>

\* The version tokens t with line = "from ." t ".models import" rest, where t is
\* 'v', a digit and then at least least other characters, none of them a dot,
\* and, if whole, rest is " *"
TokensIn(line, least, whole) ==
    {t \in {SubSeq(line, Len(FromDot) + 1, n) : n \in (Len(FromDot) + 1)..Len(line)} :
        /\ Len(t) >= 2 + least
        /\ t[1] = "v"
        /\ IsDigit(t[2])
        /\ \A i \in 1..Len(t) : t[i] # "."
        /\ StartsWith(line, FromDot \o t \o ModelsImport)
        /\ whole => line = FromDot \o t \o ModelsImport \o <<" ", "*">>}

\* The tokens of the lines, in the order of the lines
RECURSIVE Declared(_, _, _)
Declared(lines, least, whole) ==
    IF lines = <<>> THEN <<>>
    ELSE LET ts == TokensIn(lines[1], least, whole)
         IN  (IF ts = {} THEN <<>> ELSE <<CHOOSE t \in ts : TRUE>>)
                 \o Declared(Drop(lines, 1), least, whole)

\* C10 as stated: _parse_models returns, in order, the version of every line
\* that is exactly `from .<version>.models import *` with <version> 'v', a digit
\* and zero or more characters other than a dot, and nothing else; the
\* directory is versioned exactly when there is such a line.
C10_ParseAsStated ==
    parsedOut # <<>> =>
        /\ parsedOut[1] = Declared(LinesOfA, 0, TRUE)
        /\ versionedOut = {Declared(LinesOfA, 0, TRUE) # <<>>}

\* C10 amended: _parse_models returns, in order, the version of every line that
\* begins with `from .<version>.models import`, whatever follows, with
\* <version> 'v', a digit and one or more characters other than a dot (v7_0 is
\* captured, v7 is not), and nothing else; a fresh object is versioned exactly
\* when there is such a line.
C10_ParsePrefixOneOrMore ==
    parsedOut # <<>> =>
        /\ parsedOut[1] = Declared(LinesOfA, 1, FALSE)
        /\ versionedOut = {Declared(LinesOfA, 1, FALSE) # <<>>}

\* C10 witness: a call on a manifest with an import of v1_0 and an import of v7
\* returned v1_0 alone.
C10_Witness ==
    /\ parsedOut = <<(<<V1>>)>>
    /\ versionedOut = {TRUE}
    /\ \E k \in 1..Len(LinesOfA) : LinesOfA[k] = ImportLine(V7)

====
